---- MODULE Spec2Model ----
(***************************************************************************)
(* django-landelayo: events with recurrence rules, lazily generated        *)
(* occurrences, persisted per-occurrence overrides and the upcoming        *)
(* listing.                                                                *)
(*                                                                         *)
(* Time.  An instant is a whole number of hours since 2024-01-01 00:00 UTC *)
(* (a Monday); a date is a day index, day 0 = 2024-01-01.  Every instant   *)
(* the model forms lies on a whole hour below 23:00, so the end of a day   *)
(* (time.max = 23:59:59.999999) orders against every such instant exactly  *)
(* as the hour 23:00 of that day does.                                     *)
(*                                                                         *)
(* Text.  A string is a sequence of ASCII codes.                           *)
(***************************************************************************)
EXTENDS Integers, Sequences, FiniteSets, TLC

(***************************************************************************)
(* Bounds of the model.                                                    *)
(***************************************************************************)
MaxDay == 2
MaxEvents == 1
MaxOccurrences == 2

Days == 0..MaxDay
Users == {1, 2}
None == [none |-> TRUE]
\* the until of a recurrence: the datetime.date that RecurrenceSerializer
\* validates, or the string that the JSONField holds once stored
UntilDate(d) == [type |-> "date", day |-> d]
UntilStr(d) == [type |-> "str", day |-> d]

(***************************************************************************)
(* datetime helpers.                                                       *)
(***************************************************************************)
DateOf(t) == t \div 24
HourOf(t) == t % 24
\* datetime.combine(d, time.min)
StartOfDay(d) == 24 * d
\* datetime.combine(d, time.max)
EndOfDay(d) == 24 * d + 23
\* date.weekday(): 0 = Monday; day 0 is a Monday
Weekday(d) == d % 7
WeekOf(d) == d \div 7
\* date.isoweekday(): 1 = Monday ... 7 = Sunday
isoweekday(d) == Weekday(d) + 1

(***************************************************************************)
(* The calendar of the dates: year, month and day of a day index, in the   *)
(* years around the epoch.                                                 *)
(***************************************************************************)
EpochYear == 2024
Years == (EpochYear - 2)..(EpochYear + 3)
IsLeap(y) == (y % 4 = 0 /\ y % 100 # 0) \/ y % 400 = 0
DaysInYear(y) == IF IsLeap(y) THEN 366 ELSE 365
\* calendar.monthrange(year, month)[1]
monthrange(y, m) ==
    IF m \in {4, 6, 9, 11} THEN 30
    ELSE IF m = 2 THEN (IF IsLeap(y) THEN 29 ELSE 28)
    ELSE 31

RECURSIVE YearStart(_)
\* the day index of January 1 of a year
YearStart(y) ==
    IF y = EpochYear THEN 0
    ELSE IF y > EpochYear THEN YearStart(y - 1) + DaysInYear(y - 1)
    ELSE YearStart(y + 1) - DaysInYear(y)

RECURSIVE MonthStart(_, _)
MonthStart(y, m) ==
    IF m = 1 THEN YearStart(y) ELSE MonthStart(y, m - 1) + monthrange(y, m - 1)

\* datetime(year, month, day), as a day index
Date(y, m, day) == MonthStart(y, m) + day - 1
\* date.year, date.month, date.day
YearOf(d) == CHOOSE y \in Years : YearStart(y) <= d /\ d < YearStart(y + 1)
MonthOf(d) ==
    CHOOSE m \in 1..12 :
       /\ MonthStart(YearOf(d), m) <= d
       /\ d < MonthStart(YearOf(d), m) + monthrange(YearOf(d), m)
DayOfMonth(d) == d - MonthStart(YearOf(d), MonthOf(d)) + 1

(***************************************************************************)
(* str() of the values that go into a unique key.                          *)
(***************************************************************************)
TwoDigits(n) == <<48 + (n \div 10), 48 + (n % 10)>>
\* str(int), for the ids the model forms (below 100)
StrInt(n) == IF n < 10 THEN <<48 + n>> ELSE TwoDigits(n)
\* str(datetime) of an aware UTC datetime without microseconds:
\* "2024-01-DD HH:00:00+00:00"
StrDatetime(t) ==
    <<50, 48, 50, 52, 45, 48, 49, 45>> \o TwoDigits(DateOf(t) + 1) \o <<32>>
    \o TwoDigits(HourOf(t)) \o <<58, 48, 48, 58, 48, 48, 43, 48, 48, 58, 48, 48>>

IsDigit(c) == c \in 48..57
\* DateTimeField.to_python on a string: the instant, or -1 when the string is
\* no datetime (django raises ValidationError on save)
ParseDatetime(s) ==
    IF /\ Len(s) = 25
       /\ SubSeq(s, 1, 8) = <<50, 48, 50, 52, 45, 48, 49, 45>>
       /\ IsDigit(s[9]) /\ IsDigit(s[10]) /\ s[11] = 32
       /\ IsDigit(s[12]) /\ IsDigit(s[13])
       /\ SubSeq(s, 14, 25) = <<58, 48, 48, 58, 48, 48, 43, 48, 48, 58, 48, 48>>
       /\ (s[9] - 48) * 10 + (s[10] - 48) \in 1..31
       /\ (s[12] - 48) * 10 + (s[13] - 48) \in 0..23
    THEN ((s[9] - 48) * 10 + (s[10] - 48) - 1) * 24 + (s[12] - 48) * 10 + (s[13] - 48)
    ELSE -1

(***************************************************************************)
(* base64.urlsafe_b64encode / urlsafe_b64decode.                           *)
(***************************************************************************)
\* the url-safe alphabet: A-Z a-z 0-9 - _
B64Char(v) ==
    IF v < 26 THEN 65 + v
    ELSE IF v < 52 THEN 97 + (v - 26)
    ELSE IF v < 62 THEN 48 + (v - 52)
    ELSE IF v = 62 THEN 45 ELSE 95

B64Value(c) ==
    IF c \in 65..90 THEN c - 65
    ELSE IF c \in 97..122 THEN c - 97 + 26
    ELSE IF c \in 48..57 THEN c - 48 + 52
    ELSE IF c = 45 THEN 62
    ELSE IF c = 95 THEN 63 ELSE -1

RECURSIVE urlsafe_b64encode(_)
urlsafe_b64encode(bytes) ==
    IF Len(bytes) = 0 THEN <<>>
    ELSE IF Len(bytes) = 1 THEN
        <<B64Char(bytes[1] \div 4), B64Char((bytes[1] % 4) * 16), 61, 61>>
    ELSE IF Len(bytes) = 2 THEN
        <<B64Char(bytes[1] \div 4),
          B64Char((bytes[1] % 4) * 16 + bytes[2] \div 16),
          B64Char((bytes[2] % 16) * 4), 61>>
    ELSE
        <<B64Char(bytes[1] \div 4),
          B64Char((bytes[1] % 4) * 16 + bytes[2] \div 16),
          B64Char((bytes[2] % 16) * 4 + bytes[3] \div 64),
          B64Char(bytes[3] % 64)>>
        \o urlsafe_b64encode(SubSeq(bytes, 4, Len(bytes)))

\* binascii.Error (a ValueError): the length is no multiple of 4, or the
\* padding is not one or two '=' that close the last group
B64Malformed(chars) ==
    \/ Len(chars) % 4 # 0
    \/ \E i \in 1..Len(chars) :
          /\ chars[i] = 61
          /\ \/ i < Len(chars) - 1
             \/ i = Len(chars) - 1 /\ chars[Len(chars)] # 61
    \/ \E i \in 1..Len(chars) : chars[i] # 61 /\ B64Value(chars[i]) = -1

RECURSIVE B64Groups(_)
B64Groups(chars) ==
    IF Len(chars) = 0 THEN <<>>
    ELSE LET a == B64Value(chars[1])
             b == B64Value(chars[2])
             c == B64Value(chars[3])
             d == B64Value(chars[4])
         IN  IF chars[3] = 61 THEN <<a * 4 + b \div 16>>
             ELSE IF chars[4] = 61
                  THEN <<a * 4 + b \div 16, (b % 16) * 16 + c \div 4>>
             ELSE <<a * 4 + b \div 16, (b % 16) * 16 + c \div 4, (c % 4) * 64 + d>>
                  \o B64Groups(SubSeq(chars, 5, Len(chars)))

\* the decoded bytes of a well-formed string
urlsafe_b64decode(chars) == B64Groups(chars)

(***************************************************************************)
(* str.split('_')                                                          *)
(***************************************************************************)
RECURSIVE Split(_, _)
\* the fields of s, cur being the field read so far
Split(s, cur) ==
    IF s = <<>> THEN <<cur>>
    ELSE IF Head(s) = 95 THEN <<cur>> \o Split(Tail(s), <<>>)
    ELSE Split(Tail(s), Append(cur, Head(s)))

(***************************************************************************)
(* enum.py: the names the recurrence JSON carries and their rrule values.  *)
(* The model's recurrences use the DAILY and WEEKLY frequencies and the    *)
(* BY_WEEK_DAY period rule; its dates stay within one month.               *)
(***************************************************************************)
Frequency_to_rrule(name) ==
    CASE name = "YEARLY" -> 0
      [] name = "MONTHLY" -> 1
      [] name = "WEEKLY" -> 2
      [] name = "DAILY" -> 3
      [] name = "HOURLY" -> 4

Period_to_rrule(name) ==
    CASE name = "BY_YEAR_DAY" -> "byyearday"
      [] name = "BY_MONTH" -> "bymonth"
      [] name = "BY_MONTH_DAY" -> "bymonthday"
      [] name = "BY_WEEK_NO" -> "byweekno"
      [] name = "BY_WEEK_DAY" -> "byweekday"
      [] name = "BY_HOUR" -> "byhour"

EmptyDict == [k \in {} |-> 0]
Has(dict, key) == key \in DOMAIN dict
Range(s) == {s[i] : i \in DOMAIN s}

\* Event.get_rule: the keyword arguments of the rrule
get_rule(recurrence) ==
    [freq |-> Frequency_to_rrule(recurrence.frequency)]
    @@ (IF Has(recurrence, "count") THEN [count |-> recurrence.count] ELSE EmptyDict)
    @@ (IF Has(recurrence, "interval") THEN [interval |-> recurrence.interval]
        ELSE EmptyDict)
    @@ (IF Has(recurrence, "until") THEN [until |-> recurrence.until] ELSE EmptyDict)
    @@ (IF Has(recurrence, "period")
        THEN (Period_to_rrule(recurrence.period.rule) :> recurrence.period.sequence)
        ELSE EmptyDict)

(***************************************************************************)
(* dateutil.rrule.rrule(dtstart, until, **rules), as a list: the instants  *)
(* of the rule from dtstart on, ascending, none after until, at most count *)
(* of them.  DAILY steps interval days from dtstart; WEEKLY takes the      *)
(* weeks (Monday first) that lie a multiple of interval after the week of  *)
(* dtstart; byweekday keeps the days of those weekdays (for WEEKLY it      *)
(* defaults to the weekday of dtstart).  interval is positive.             *)
(***************************************************************************)
\* a variant that numbers the weekdays from Sunday = 0
RuleDayMatches_sunday_first(d, dtstart, rules) ==
    LET d0 == DateOf(dtstart)
        interval == IF Has(rules, "interval") THEN rules.interval ELSE 1
    IN  /\ d >= d0
        /\ IF rules.freq = 2
           THEN /\ (WeekOf(d) - WeekOf(d0)) % interval = 0
                /\ (Weekday(d) + 1) % 7 \in (IF Has(rules, "byweekday")
                                             THEN Range(rules.byweekday)
                                             ELSE {(Weekday(d0) + 1) % 7})
           ELSE /\ (d - d0) % interval = 0
                /\ Has(rules, "byweekday")
                      => (Weekday(d) + 1) % 7 \in Range(rules.byweekday)

RuleDayMatches(d, dtstart, rules) ==
    LET d0 == DateOf(dtstart)
        interval == IF Has(rules, "interval") THEN rules.interval ELSE 1
    IN  /\ d >= d0
        /\ IF rules.freq = 2
           THEN /\ (WeekOf(d) - WeekOf(d0)) % interval = 0
                /\ Weekday(d) \in (IF Has(rules, "byweekday")
                                   THEN Range(rules.byweekday)
                                   ELSE {Weekday(d0)})
           ELSE /\ (d - d0) % interval = 0
                /\ Has(rules, "byweekday") => Weekday(d) \in Range(rules.byweekday)

RECURSIVE RuleInstants(_, _, _, _)
\* the instants of the rule on the days d, d+1, ... that are not after until
RuleInstants(d, dtstart, until, rules) ==
    IF 24 * d + HourOf(dtstart) > until THEN <<>>
    ELSE (IF RuleDayMatches(d, dtstart, rules)
          THEN <<24 * d + HourOf(dtstart)>> ELSE <<>>)
         \o RuleInstants(d + 1, dtstart, until, rules)

\* a variant that does not stop at count
rrule_uncounted(dtstart, until, rules) ==
    RuleInstants(DateOf(dtstart), dtstart, until, rules)

rrule(dtstart, until, rules) ==
    LET all == RuleInstants(DateOf(dtstart), dtstart, until, rules)
    IN  IF Has(rules, "count") /\ rules.count < Len(all)
        THEN SubSeq(all, 1, rules.count)
        ELSE all

(***************************************************************************)
(* models.py: Event and Occurrence.  saved is the queryset                 *)
(* event.saved_occurrences: the persisted occurrences of the event still   *)
(* unconsumed, in id order.                                                *)
(***************************************************************************)
NoId == 0

\* Event.is_occurrence_saved: the first saved occurrence of the slot, or None
is_occurrence_saved(saved, start, end) ==
    LET hits == {i \in 1..Len(saved) :
                    /\ saved[i].original_start_date = start
                    /\ saved[i].original_end_date = end}
    IN  IF hits = {} THEN None
        ELSE saved[CHOOSE i \in hits : \A j \in hits : i <= j]

\* Event.occurrence_in_range
occurrence_in_range(saved, start, end) ==
    SelectSeq(saved, LAMBDA occur : occur.start_date >= start /\ occur.end_date <= end)

\* a variant that gives every occurrence the end of the event
NewOccurrence_event_end(event, start_date, end_date) ==
    [id |-> NoId, event |-> event.id, title |-> event.title,
     description |-> event.description,
     start_date |-> start_date, end_date |-> event.end_date, cancelled |-> FALSE,
     original_start_date |-> start_date, original_end_date |-> event.end_date]

\* the Occurrence(...) that create_occurrence constructs, unsaved
NewOccurrence(event, start_date, end_date) ==
    [id |-> NoId, event |-> event.id, title |-> event.title,
     description |-> event.description,
     start_date |-> start_date, end_date |-> end_date, cancelled |-> FALSE,
     original_start_date |-> start_date, original_end_date |-> end_date]

\* a variant that leaves the occurrence it returns among the saved ones
create_occurrence_keeping(event, saved, start_date) ==
    LET end_date == start_date + (event.end_date - event.start_date)
        hit == is_occurrence_saved(saved, start_date, end_date)
    IN  IF hit # None
        THEN [occurrence |-> hit, saved |-> saved]
        ELSE [occurrence |-> NewOccurrence(event, start_date, end_date),
              saved |-> saved]

\* Event.create_occurrence(start_date): the occurrence returned and the
\* saved_occurrences it leaves on the event
create_occurrence(event, saved, start_date) ==
    LET end_date == start_date + (event.end_date - event.start_date)
        hit == is_occurrence_saved(saved, start_date, end_date)
    IN  IF hit # None
        THEN [occurrence |-> hit,
              saved |-> SelectSeq(saved, LAMBDA o : o.id # hit.id)]
        ELSE [occurrence |-> NewOccurrence(event, start_date, end_date),
              saved |-> saved]

RECURSIVE GenerateLoop_after_start(_, _, _, _, _)
\* a variant that leaves out the instant at the start of the window
GenerateLoop_after_start(event, instants, start_date, end_date, acc) ==
    IF instants = <<>> THEN acc
    ELSE IF start_date < Head(instants) /\ Head(instants) <= end_date
    THEN LET made == create_occurrence(event, acc.saved, Head(instants))
         IN  GenerateLoop_after_start(event, Tail(instants), start_date, end_date,
                          [occurrences |-> Append(acc.occurrences, made.occurrence),
                           saved |-> made.saved])
    ELSE GenerateLoop_after_start(event, Tail(instants), start_date, end_date, acc)

RECURSIVE GenerateLoop(_, _, _, _, _)
\* the for loop of occurrence_between over the instants of the rule
GenerateLoop(event, instants, start_date, end_date, acc) ==
    IF instants = <<>> THEN acc
    ELSE IF start_date <= Head(instants) /\ Head(instants) <= end_date
    THEN LET made == create_occurrence(event, acc.saved, Head(instants))
         IN  GenerateLoop(event, Tail(instants), start_date, end_date,
                          [occurrences |-> Append(acc.occurrences, made.occurrence),
                           saved |-> made.saved])
    ELSE GenerateLoop(event, Tail(instants), start_date, end_date, acc)

Returns(list) == [raised |-> FALSE, list |-> list]
\* TypeError: '<' not supported between instances of 'str' and
\* 'datetime.date'; rrule() got multiple values for keyword argument 'until'
Raises == [raised |-> TRUE, list |-> <<>>]

\* the outcome of a call of occurrence_between with the attribute
\* saved_occurrences that the call leaves on the event object
Leaving(outcome, saved) ==
    [raised |-> outcome.raised, list |-> outcome.list, saved_occurrences |-> saved]

\* a variant that keeps the saved_occurrences a former call left on the event
SavedOccurrences_kept(event, all) ==
    IF Has(event, "saved_occurrences") THEN event.saved_occurrences ELSE all

\* self.saved_occurrences = self.occurrences.all(), all being the persisted
\* occurrences of the event in id order; event is the event object, with the
\* attribute saved_occurrences when a former call has set it
SavedOccurrences(event, all) == all

\* a variant that appends the occurrences in range to the slot of an event
\* without recurrence
occurrence_between_with_leftovers(event, all, start_date, end_date) ==
    LET saved == SavedOccurrences(event, all)
    IN  IF event.recurrence = None
        THEN IF event.start_date < end_date /\ event.end_date > start_date
             THEN LET made == create_occurrence(event, saved, event.start_date)
                  IN  Leaving(Returns(<<made.occurrence>>
                                      \o occurrence_in_range(made.saved,
                                                             start_date, end_date)),
                              made.saved)
             ELSE Leaving(Returns(<<>>), saved)
        ELSE IF event.start_date > end_date THEN Leaving(Returns(<<>>), saved)
        ELSE IF Has(event.recurrence, "until")
                /\ event.recurrence.until.type = "str"
        THEN Leaving(Raises, saved)
        ELSE IF Has(event.recurrence, "until")
                /\ event.recurrence.until.day < DateOf(start_date)
        THEN Leaving(Returns(<<>>), saved)
        ELSE LET rules == get_rule(event.recurrence)
             IN  IF Has(rules, "until") THEN Leaving(Raises, saved)
                 ELSE LET merged == GenerateLoop(event,
                                        rrule(event.start_date, end_date, rules),
                                        start_date, end_date,
                                        [occurrences |-> <<>>, saved |-> saved])
                      IN  Leaving(Returns(merged.occurrences
                                          \o occurrence_in_range(merged.saved,
                                                                 start_date, end_date)),
                                  merged.saved)

\* Event.occurrence_between, all being event.occurrences.all() in id order
occurrence_between(event, all, start_date, end_date) ==
    LET saved == SavedOccurrences(event, all)
    IN  IF event.recurrence = None
        THEN IF event.start_date < end_date /\ event.end_date > start_date
             THEN LET made == create_occurrence(event, saved, event.start_date)
                  IN  Leaving(Returns(<<made.occurrence>>), made.saved)
             ELSE Leaving(Returns(<<>>), saved)
        ELSE IF event.start_date > end_date THEN Leaving(Returns(<<>>), saved)
        ELSE IF Has(event.recurrence, "until")
                /\ event.recurrence.until.type = "str"
        THEN Leaving(Raises, saved)
        ELSE IF Has(event.recurrence, "until")
                /\ event.recurrence.until.day < DateOf(start_date)
        THEN Leaving(Returns(<<>>), saved)
        ELSE LET rules == get_rule(event.recurrence)
             IN  IF Has(rules, "until") THEN Leaving(Raises, saved)
                 ELSE LET merged == GenerateLoop(event,
                                        rrule(event.start_date, end_date, rules),
                                        start_date, end_date,
                                        [occurrences |-> <<>>, saved |-> saved])
                      IN  Leaving(Returns(merged.occurrences
                                          \o occurrence_in_range(merged.saved,
                                                                 start_date, end_date)),
                                  merged.saved)

(***************************************************************************)
(* serializers.py: the unique key of an occurrence and its decoding.       *)
(***************************************************************************)
Underscore == <<95>>

\* a variant that separates the fields with hyphens
get_unique_key_hyphens(event_id, original_start_date, original_end_date) ==
    urlsafe_b64encode(StrInt(event_id) \o <<45>>
                      \o StrDatetime(original_start_date) \o <<45>>
                      \o StrDatetime(original_end_date))

\* OccurrenceSerializer.get_unique_key
get_unique_key(event_id, original_start_date, original_end_date) ==
    urlsafe_b64encode(StrInt(event_id) \o Underscore
                      \o StrDatetime(original_start_date) \o Underscore
                      \o StrDatetime(original_end_date))

\* a variant that takes the first three fields of a key of more fields
DecodeKey_first_three(occurrence_key) ==
    IF B64Malformed(occurrence_key) THEN [ok |-> FALSE, fields |-> <<>>]
    ELSE LET fields == Split(urlsafe_b64decode(occurrence_key), <<>>)
         IN  IF Len(fields) >= 3 THEN [ok |-> TRUE, fields |-> SubSeq(fields, 1, 3)]
             ELSE [ok |-> FALSE, fields |-> <<>>]

\* the try block of OccurrenceSerializer.create: the three fields of the key,
\* or ValueError (bad base64, or not exactly three fields to unpack)
DecodeKey(occurrence_key) ==
    IF B64Malformed(occurrence_key) THEN [ok |-> FALSE, fields |-> <<>>]
    ELSE LET fields == Split(urlsafe_b64decode(occurrence_key), <<>>)
         IN  IF Len(fields) = 3 THEN [ok |-> TRUE, fields |-> fields]
             ELSE [ok |-> FALSE, fields |-> <<>>]

\* the start of the slots the model's events and keys use: 09:00 of each day
SlotStarts == {24 * d + 9 : d \in Days}

\* base64 of "1_a_b": three fields, no datetimes
KeyNoDates == urlsafe_b64encode(<<49, 95, 97, 95, 98>>)
\* base64 of "1_2024-01-01 09:00:00+00:00": two fields
KeyTwoFields == urlsafe_b64encode(<<49>> \o Underscore \o StrDatetime(9))
\* base64 of four fields
KeyFourFields ==
    urlsafe_b64encode(<<49>> \o Underscore \o StrDatetime(9) \o Underscore
                      \o StrDatetime(10) \o Underscore \o <<49>>)
\* a key cut short: no base64
KeyBadPadding == SubSeq(get_unique_key(1, 9, 10), 1, 71)

\* the keys of the slots of the events of the model, and the key of a slot
\* under an event id beyond them
SlotKeys ==
    { get_unique_key(id, s, s + 1) : id \in 1..MaxEvents, s \in SlotStarts }
    \cup {get_unique_key(MaxEvents + 1, 9, 10)}

Keys == SlotKeys \cup {KeyNoDates, KeyTwoFields, KeyFourFields, KeyBadPadding}

\* DecodeKey on the keys of the model
DecodedKeys == [k \in Keys |-> DecodeKey(k)]

\* OccurrenceSerializer.validate
OccurrenceSerializer_validate(data) == ~(data.start_date > data.end_date)

\* Occurrence.objects.filter(id=occurrence_id, event=event).first()
\* a variant that looks the occurrence up by its id alone
FindInstance_any_event(occs, occurrence_id, event_id) ==
    IF occurrence_id \in 1..Len(occs) THEN occurrence_id ELSE NoId

FindInstance(occs, occurrence_id, event_id) ==
    IF /\ occurrence_id \in 1..Len(occs)
       /\ occs[occurrence_id].event = event_id
    THEN occurrence_id ELSE NoId

\* a variant that also moves the original slot to the submitted start and end
WithSubmitted_moving_slot(instance, data) ==
    [instance EXCEPT !.title = data.title, !.description = data.description,
                     !.start_date = data.start_date, !.end_date = data.end_date,
                     !.cancelled = data.cancelled,
                     !.original_start_date = data.start_date,
                     !.original_end_date = data.end_date]

\* the five assignments of OccurrenceSerializer.create before instance.save()
WithSubmitted(instance, data) ==
    [instance EXCEPT !.title = data.title, !.description = data.description,
                     !.start_date = data.start_date, !.end_date = data.end_date,
                     !.cancelled = data.cancelled]

\* a Response: its status, the exception behind an error status, the id in
\* the body of an occurrence
Response(status, error, id) == [status |-> status, error |-> error, id |-> id]

\* a variant that takes both original dates from the second field of the key
OccurrenceSerializer_create_one_date(occs, event_id, data) ==
    LET found == FindInstance(occs, data.occurrence_id, event_id)
    IN  IF found # NoId
        THEN [response |-> Response(201, "", found),
              occurrences |-> [occs EXCEPT ![found] = WithSubmitted(occs[found], data)]]
        ELSE LET key == DecodedKeys[data.occurrence_key]
             IN  IF ~key.ok
                 THEN [response |-> Response(400, "ValueError", NoId),
                       occurrences |-> occs]
                 ELSE LET original_start == ParseDatetime(key.fields[2])
                      IN  IF original_start = -1
                          THEN [response |-> Response(500, "django ValidationError", NoId),
                                occurrences |-> occs]
                          ELSE [response |-> Response(201, "", Len(occs) + 1),
                                occurrences |->
                                   Append(occs,
                                          WithSubmitted(
                                             [id |-> Len(occs) + 1, event |-> event_id,
                                              title |-> "", description |-> "",
                                              start_date |-> 0, end_date |-> 0,
                                              cancelled |-> FALSE,
                                              original_start_date |-> original_start,
                                              original_end_date |-> original_start],
                                             data))]

\* OccurrenceSerializer.create: the response and the table of occurrences
\* after it.  400 is the ValidationError raised for the ValueError of a
\* malformed key, 500 the django ValidationError that save() raises for an
\* original date that is no datetime; the body of a 201 carries the id of
\* the instance.
OccurrenceSerializer_create(occs, event_id, data) ==
    LET found == FindInstance(occs, data.occurrence_id, event_id)
    IN  IF found # NoId
        THEN [response |-> Response(201, "", found),
              occurrences |-> [occs EXCEPT ![found] = WithSubmitted(occs[found], data)]]
        ELSE LET key == DecodedKeys[data.occurrence_key]
             IN  IF ~key.ok
                 THEN [response |-> Response(400, "ValueError", NoId),
                       occurrences |-> occs]
                 ELSE LET original_start == ParseDatetime(key.fields[2])
                          original_end == ParseDatetime(key.fields[3])
                      IN  IF original_start = -1 \/ original_end = -1
                          THEN [response |-> Response(500, "django ValidationError", NoId),
                                occurrences |-> occs]
                          ELSE [response |-> Response(201, "", Len(occs) + 1),
                                occurrences |->
                                   Append(occs,
                                          WithSubmitted(
                                             [id |-> Len(occs) + 1, event |-> event_id,
                                              title |-> "", description |-> "",
                                              start_date |-> 0, end_date |-> 0,
                                              cancelled |-> FALSE,
                                              original_start_date |-> original_start,
                                              original_end_date |-> original_end],
                                             data))]

(***************************************************************************)
(* serializers.py: events.                                                 *)
(***************************************************************************)
\* RecurrenceSerializer.validate_until and validate, today being
\* timezone.now().date()
RecurrenceSerializer_validate(recurrence, today) ==
    /\ Has(recurrence, "until") => ~(recurrence.until.day < today)
    /\ ~(/\ Has(recurrence, "count") /\ recurrence.count # 0
         /\ Has(recurrence, "until"))

\* EventSerializer.validate, now being timezone.now()
EventSerializer_validate(data, now) ==
    /\ ~(data.start_date > data.end_date)
    /\ ~(data.start_date < now)
    /\ data.recurrence # None
          => RecurrenceSerializer_validate(data.recurrence, DateOf(now))

\* EventSerializer.create, with created_by from serializer.save
EventSerializer_create(evs, data, user) ==
    Append(evs, [id |-> Len(evs) + 1, title |-> data.title,
                 description |-> data.description,
                 start_date |-> data.start_date, end_date |-> data.end_date,
                 attendees |-> data.attendees, created_by |-> user,
                 calendar |-> data.calendar_id,
                 recurrence |-> data.recurrence])

\* EventSerializer.update of a payload without recurrence
EventSerializer_update(instance, data) ==
    [instance EXCEPT !.title = data.title, !.description = data.description,
                     !.start_date = data.start_date, !.end_date = data.end_date,
                     !.calendar = data.calendar_id,
                     !.attendees = IF data.attendees # {} THEN data.attendees ELSE @]

(***************************************************************************)
(* views.py, occurrences.py, utils.py: the upcoming listing.               *)
(***************************************************************************)
\* the calendars: the name of each calendar id
Calendars == <<"Work", "Home">>
\* no calendar in the query parameters
NoCalendar == ""

\* ParamSerializer.validate, -1 being a missing date: the message of the
\* ValidationError, or "" when the parameters are valid
ParamSerializer_error(params) ==
    IF params.period # "CUSTOM" THEN ""
    ELSE IF params.from_date = -1 \/ params.to_date = -1
    THEN "period: dates required"
    ELSE IF params.from_date > params.to_date THEN "period: Invalid date range"
    ELSE ""

\* a variant that accepts a custom range that ends before it starts
ParamSerializer_validate_any_range(params) ==
    params.period = "CUSTOM" => (params.from_date # -1 /\ params.to_date # -1)

ParamSerializer_validate(params) == ParamSerializer_error(params) = ""

\* a variant whose week starts at date.weekday() days before today
period_days_weekday(params, clock) ==
    LET now_date == clock.now_date
        window(start, end) == [from_date |-> StartOfDay(start), to_date |-> EndOfDay(end)]
    IN  IF params.period = "DAY" THEN window(now_date, now_date)
        ELSE IF params.period = "WEEK"
        THEN LET today == clock.today
                 weekday == Weekday(today)
                 start == today - weekday
                 end == start + 6
             IN  window(start, end)
        ELSE IF params.period = "MONTH"
        THEN LET end == monthrange(YearOf(now_date), MonthOf(now_date))
             IN  window(Date(YearOf(now_date), MonthOf(now_date), 1),
                        Date(YearOf(now_date), MonthOf(now_date), end))
        ELSE IF params.period = "YEAR"
        THEN window(Date(YearOf(now_date), 1, 1), Date(YearOf(now_date) + 1, 1, 1))
        ELSE window(params.from_date, params.to_date)

\* period_days; clock.now_date is timezone.now().date() and clock.today is
\* date.today()
period_days(params, clock) ==
    LET now_date == clock.now_date
        window(start, end) == [from_date |-> StartOfDay(start), to_date |-> EndOfDay(end)]
    IN  IF params.period = "DAY" THEN window(now_date, now_date)
        ELSE IF params.period = "WEEK"
        THEN LET today == clock.today
                 weekday == isoweekday(today)
                 start == today - weekday
                 end == start + 6
             IN  window(start, end)
        ELSE IF params.period = "MONTH"
        THEN LET end == monthrange(YearOf(now_date), MonthOf(now_date))
             IN  window(Date(YearOf(now_date), MonthOf(now_date), 1),
                        Date(YearOf(now_date), MonthOf(now_date), end))
        ELSE IF params.period = "YEAR"
        THEN window(Date(YearOf(now_date), 1, 1), Date(YearOf(now_date) + 1, 1, 1))
        ELSE window(params.from_date, params.to_date)

\* the rows of Event.objects.filter(Q(attendees=user) | Q(created_by=user)) for
\* one event: the join with the attendees table yields one row per attendee,
\* or one row without attendee, and the filter keeps the rows it matches
QueryRows(event, user) ==
    IF event.created_by = user
    THEN IF event.attendees = {} THEN 1 ELSE Cardinality(event.attendees)
    ELSE IF user \in event.attendees THEN 1 ELSE 0

RECURSIVE Repeat(_, _)
Repeat(x, n) == IF n = 0 THEN <<>> ELSE <<x>> \o Repeat(x, n - 1)

RECURSIVE QuerySeq(_, _, _)
\* UpcomingViewSet.get_queryset, in id order from event i on
QuerySeq(evs, i, user) ==
    IF i > Len(evs) THEN <<>>
    ELSE Repeat(evs[i], QueryRows(evs[i], user)) \o QuerySeq(evs, i + 1, user)

get_queryset(evs, user) == QuerySeq(evs, 1, user)

\* event.occurrences.all()
OccurrencesOf(occs, event_id) == SelectSeq(occs, LAMBDA o : o.event = event_id)

RECURSIVE upcoming_loop_prepending(_, _, _, _)
\* a variant that puts the occurrences of an event before those of the
\* events before it
upcoming_loop_prepending(query, occs, dates, occur_list) ==
    IF query = <<>> THEN Returns(occur_list)
    ELSE LET occur == occurrence_between(Head(query),
                                         OccurrencesOf(occs, Head(query).id),
                                         dates.from_date, dates.to_date)
         IN  IF occur.raised THEN Raises
             ELSE upcoming_loop_prepending(Tail(query), occs, dates,
                                           occur.list \o occur_list)

RECURSIVE upcoming_loop(_, _, _, _)
\* the loop of upcoming_occurrences over the query
upcoming_loop(query, occs, dates, occur_list) ==
    IF query = <<>> THEN Returns(occur_list)
    ELSE LET occur == occurrence_between(Head(query),
                                         OccurrencesOf(occs, Head(query).id),
                                         dates.from_date, dates.to_date)
         IN  IF occur.raised THEN Raises
             ELSE upcoming_loop(Tail(query), occs, dates, occur_list \o occur.list)

\* a variant that ignores the calendar of the parameters
FilterCalendar_ignored(query, params) == query

\* query.filter(calendar__name=params.calendar.name) when a calendar is given
FilterCalendar(query, params) ==
    IF params.calendar # NoCalendar
    THEN SelectSeq(query, LAMBDA event : Calendars[event.calendar] = params.calendar)
    ELSE query

\* a variant in which the query deletes the persisted occurrences it returns
TableAfterQuery_consuming(occs, outcome) ==
    IF outcome.raised THEN occs
    ELSE SelectSeq(occs, LAMBDA o : o \notin Range(outcome.list))

\* the table of occurrences after upcoming_occurrences: the loop, and
\* occurrence_between and create_occurrence under it, call no save() and no
\* delete(); saved_occurrences.exclude(...) narrows a queryset of the call
TableAfterQuery(occs, outcome) == occs

\* upcoming_occurrences(params, query)
upcoming_occurrences(params, query, occs, clock) ==
    upcoming_loop(FilterCalendar(query, params), occs, period_days(params, clock), <<>>)

(***************************************************************************)
(* The requests the model sends.                                           *)
(***************************************************************************)

Recurrences ==
    { None,
      [frequency |-> "DAILY"],
      [frequency |-> "DAILY", count |-> 2],
      [frequency |-> "DAILY", interval |-> 2],
      [frequency |-> "WEEKLY",
       period |-> [rule |-> "BY_WEEK_DAY", sequence |-> <<0, 1>>]],
      [frequency |-> "DAILY", count |-> 1,
       period |-> [rule |-> "BY_WEEK_DAY", sequence |-> <<1, 2>>]],
      [frequency |-> "DAILY", until |-> UntilDate(1)],
      [frequency |-> "DAILY", count |-> 2, until |-> UntilDate(1)],
      [frequency |-> "DAILY", count |-> 0, until |-> UntilDate(1)] }

\* the recurrences the admin form stores: JSON, so an until is a string
StoredRecurrences ==
    {r \in Recurrences : ~Has(r, "until")}
    \cup {[frequency |-> "DAILY", until |-> UntilStr(1)]}

\* the payloads of event create and update, each with attendees (the field
\* allows no empty list) and the calendar of id 1; one payload ends when it
\* starts; a negative duration is the payload EventSerializer.validate
\* rejects; on update None is "no recurrence key in the payload"
EventData ==
    { [title |-> "1st Event", description |-> "This is what we do",
       start_date |-> s, end_date |-> s + 1, attendees |-> a, calendar_id |-> 1,
       recurrence |-> r] :
         s \in SlotStarts, a \in {{2}, Users}, r \in Recurrences }
    \cup { [title |-> "1st Event", description |-> "This is what we do",
            start_date |-> 9, end_date |-> e, attendees |-> {2}, calendar_id |-> 1,
            recurrence |-> None] : e \in {8, 9} }

\* the payloads of event update: those without recurrence, and one with
UpdateData ==
    {data \in EventData : data.recurrence \in {None, [frequency |-> "DAILY"]}}

\* timezone.now() at the requests that read the clock
Nows == {9, 24 * MaxDay + 9}

\* the start and end an edit submits: 11:00-12:00 of the first or the last day
EditTimes == {<<11, 12>>, <<24 * MaxDay + 11, 24 * MaxDay + 12>>}

\* the payloads of an edit, each cancelling; occurrence_id is missing (NoId) or an id that may
\* exist; the last payload has its end before its start
OccurrenceData ==
    { [title |-> "Update Title", description |-> "Update description",
       start_date |-> t[1], end_date |-> t[2], cancelled |-> TRUE,
       occurrence_id |-> i, occurrence_key |-> k] :
         t \in EditTimes, i \in 0..MaxOccurrences, k \in Keys }
    \cup { [title |-> "Update Title", description |-> "Update description",
            start_date |-> 12, end_date |-> 11, cancelled |-> FALSE,
            occurrence_id |-> NoId, occurrence_key |-> get_unique_key(1, 9, 10)] }

\* the query parameters: custom ranges, with a date missing or not, and the
\* current day, each with a calendar or without
Params ==
    { [period |-> "CUSTOM", from_date |-> f, to_date |-> t, calendar |-> NoCalendar] :
         f \in Days \cup {-1}, t \in Days \cup {-1} }
    \cup { [period |-> "CUSTOM", from_date |-> 0, to_date |-> MaxDay, calendar |-> "Home"],
            [period |-> "DAY", from_date |-> -1, to_date |-> -1, calendar |-> NoCalendar] }

\* the custom parameters validation lets through
ValidCustomParams ==
    {params \in Params : params.period = "CUSTOM" /\ ParamSerializer_validate(params)}

\* the clock at the queries: timezone.now().date() and date.today()
Clocks == { [now_date |-> 0, today |-> 0] }

(***************************************************************************)
(* serializers.py and views.py: calendars.  A calendar is a row with its   *)
(* id (its position in the table), name, color and created_by.             *)
(***************************************************************************)
\* a variant that counts the calendar under update among those in the way
UniqueTogetherValidator_with_instance(cals, user, data, instance) ==
    ~\E i \in DOMAIN cals :
        cals[i].created_by = user /\ cals[i].name = data.name

\* UniqueTogetherValidator(queryset=Calendar.objects.filter(created_by=user),
\* fields=["name"]): no other calendar of the user has the name; instance is
\* the id of the calendar under update, NoId on create
UniqueTogetherValidator(cals, user, data, instance) ==
    ~\E i \in DOMAIN cals :
        /\ cals[i].created_by = user
        /\ cals[i].name = data.name
        /\ i # instance

\* the body of CalendarViewSet.create: the response and the table it leaves
CalendarCreateRequest(cals, user, data) ==
    IF ~UniqueTogetherValidator(cals, user, data, NoId)
    THEN [response |-> Response(400, "Calendar exists for user", NoId),
          calendars |-> cals]
    ELSE [response |-> Response(201, "", Len(cals) + 1),
          calendars |-> Append(cals, [id |-> Len(cals) + 1, name |-> data.name,
                                      color |-> data.color, created_by |-> user])]

\* the body of CalendarViewSet.update, with get_object over
\* Calendar.objects.filter(created_by=user)
CalendarUpdateRequest(cals, user, pk, data) ==
    IF ~(pk \in DOMAIN cals /\ cals[pk].created_by = user)
    THEN [response |-> Response(404, "Http404", NoId), calendars |-> cals]
    ELSE IF ~UniqueTogetherValidator(cals, user, data, pk)
    THEN [response |-> Response(400, "Calendar exists for user", NoId),
          calendars |-> cals]
    ELSE [response |-> Response(200, "", pk),
          calendars |-> [cals EXCEPT ![pk].name = data.name,
                                     ![pk].color = data.color]]

\* the calendars of the events: those of Calendars, of user 1
StoredCalendars ==
    [i \in DOMAIN Calendars |->
        [id |-> i, name |-> Calendars[i], color |-> "", created_by |-> 1]]

\* the payloads of calendar create and update
CalendarData == [name : Range(Calendars), color : {"", "red"}]

(***************************************************************************)
(* State: the tables of events, occurrences and calendars (the id of a row *)
(* is its position), the last response (its status, the exception or the   *)
(* message behind an error status, and the id in the body of an occurrence *)
(* or calendar response), and dates, the record of the last call of        *)
(* period_days where a specification follows the calls: its parameters,    *)
(* its clock and the DateRange it returned, and for a call inside          *)
(* upcoming_occurrences the user and the list returned as well.  The       *)
(* requests of Spec leave dates and calendars alone.                       *)
(***************************************************************************)
VARIABLES events, occurrences, response, dates, calendars

vars == <<events, occurrences, response, dates, calendars>>

Init ==
    /\ events = <<>>
    /\ occurrences = <<>>
    /\ response = Response(0, "", NoId)
    /\ dates = None
    /\ calendars = StoredCalendars

\* EventViewSet.create: POST /events/.  The JSONField of the recurrence
\* cannot store the datetime.date of a validated until (TypeError on save)
EventViewSet_create(user, data, now) ==
    /\ Len(events) < MaxEvents
    /\ IF ~EventSerializer_validate(data, now)
       THEN events' = events /\ response' = Response(400, "ValidationError", NoId)
       ELSE IF data.recurrence # None /\ Has(data.recurrence, "until")
       THEN events' = events /\ response' = Response(500, "TypeError", NoId)
       ELSE /\ events' = EventSerializer_create(events, data, user)
            /\ response' = Response(201, "", NoId)
    /\ UNCHANGED <<occurrences, dates, calendars>>

\* EventViewSet.get_queryset and get_object
GetObject(evs, user, pk) ==
    IF pk \in 1..Len(evs) /\ evs[pk].created_by = user THEN pk ELSE NoId

\* EventViewSet.update: PUT /events/pk/.  ModelSerializer.update refuses a
\* nested recurrence in the payload (AssertionError)
EventViewSet_update(user, pk, data, now) ==
    /\ IF GetObject(events, user, pk) = NoId
       THEN events' = events /\ response' = Response(404, "Http404", NoId)
       ELSE IF ~EventSerializer_validate(data, now)
       THEN events' = events /\ response' = Response(400, "ValidationError", NoId)
       ELSE IF data.recurrence # None
       THEN events' = events /\ response' = Response(500, "AssertionError", NoId)
       ELSE /\ events' = [events EXCEPT ![pk] = EventSerializer_update(@, data)]
            /\ response' = Response(200, "", NoId)
    /\ UNCHANGED <<occurrences, dates, calendars>>

\* EventAdmin with EventForm: the admin saves another recurrence on an event
EventAdmin_save(pk, recurrence) ==
    /\ pk \in 1..Len(events)
    /\ events' = [events EXCEPT ![pk].recurrence = recurrence]
    /\ UNCHANGED <<occurrences, response, dates, calendars>>

\* the body of EventViewSet.occurrence: the response and the table of
\* occurrences it leaves
OccurrenceRequest(evs, occs, user, pk, data) ==
    IF GetObject(evs, user, pk) = NoId
    THEN [response |-> Response(404, "Http404", NoId), occurrences |-> occs]
    ELSE IF ~OccurrenceSerializer_validate(data)
    THEN [response |-> Response(400, "ValidationError", NoId), occurrences |-> occs]
    ELSE OccurrenceSerializer_create(occs, pk, data)

\* EventViewSet.occurrence: PUT /events/pk/occurrence/
EventViewSet_occurrence(user, pk, data) ==
    /\ LET done == OccurrenceRequest(events, occurrences, user, pk, data)
       IN  /\ Len(done.occurrences) <= MaxOccurrences
           /\ occurrences' = done.occurrences
           /\ response' = done.response
    /\ UNCHANGED <<events, dates, calendars>>

\* the body of UpcomingViewSet.list: the response
UpcomingResponse(evs, occs, user, params, clock) ==
    IF ~ParamSerializer_validate(params)
    THEN Response(400, ParamSerializer_error(params), NoId)
    ELSE IF upcoming_occurrences(params, get_queryset(evs, user), occs, clock).raised
    THEN Response(500, "TypeError", NoId)
    ELSE Response(200, "", NoId)

\* UpcomingViewSet.list: GET /upcoming/
UpcomingViewSet_list(user, params, clock) ==
    /\ response' = UpcomingResponse(events, occurrences, user, params, clock)
    /\ UNCHANGED <<events, occurrences, dates, calendars>>

Next ==
    \/ \E user \in Users, data \in EventData, now \in Nows :
          EventViewSet_create(user, data, now)
    \/ \E user \in Users, pk \in 1..MaxEvents, data \in UpdateData, now \in Nows :
          EventViewSet_update(user, pk, data, now)
    \/ \E pk \in 1..MaxEvents, recurrence \in StoredRecurrences :
          EventAdmin_save(pk, recurrence)
    \/ \E user \in Users, pk \in 1..MaxEvents, data \in OccurrenceData :
          EventViewSet_occurrence(user, pk, data)
    \/ \E user \in Users, params \in Params, clock \in Clocks :
          UpcomingViewSet_list(user, params, clock)

Spec == Init /\ [][Next]_vars

(***************************************************************************)
(* The windows of the periods: period_days called by itself, with the      *)
(* parameters validation lets through, on a clock that runs from FirstDay  *)
(* to LastDay: date.today() stays or moves on one day from a call to the   *)
(* next, and the date of timezone.now() is the same day or, where the time *)
(* zones of the two differ, the day before or after.                       *)
(***************************************************************************)
DaysBefore == 7
FirstDay == 0 - DaysBefore
LastDay == 430
ClockSkew == {-1, 0, 1}

PeriodParams ==
    { [period |-> p, from_date |-> -1, to_date |-> -1, calendar |-> NoCalendar] :
         p \in {"DAY", "WEEK", "MONTH", "YEAR"} }
    \cup {params \in ValidCustomParams : params.calendar = NoCalendar}

\* the days date.today() can read after the call dates records
NextToday ==
    IF dates = None THEN {FirstDay}
    ELSE {d \in {dates.clock.today, dates.clock.today + 1} : d <= LastDay}

\* a call of period_days: dates is the DateRange returned, with the
\* parameters and the clock of the call
CallPeriodDays(params, clock) ==
    /\ dates' = [params |-> params, clock |-> clock,
                 range |-> period_days(params, clock)]
    /\ UNCHANGED <<events, occurrences, response, calendars>>

NextPeriod ==
    \E params \in PeriodParams, today \in NextToday, skew \in ClockSkew :
       CallPeriodDays(params, [now_date |-> today + skew, today |-> today])

SpecPeriod == Init /\ [][NextPeriod]_vars

(***************************************************************************)
(* The listings: GET /upcoming/ over two stored events, with the list it   *)
(* returns.  Event 1 starts a day after event 2 or around the midnight     *)
(* between day 0 and day 1: it ends at 00:00, crosses it, starts at it, or *)
(* starts at the last instant of day 1; each event has a recurrence or     *)
(* none and lies in one of the two calendars; the first slot of event 1    *)
(* has an override or none, moved to the morning of day 0.                 *)
(***************************************************************************)
FirstSpans == {<<33, 34>>, <<22, 24>>, <<22, 25>>, <<24, 25>>, <<47, 49>>}
SecondSpans == {<<9, 10>>}

StoredEventData(spans, attendees) ==
    { [title |-> "1st Event", description |-> "This is what we do",
       start_date |-> span[1], end_date |-> span[2], attendees |-> a,
       calendar_id |-> c, recurrence |-> r] :
         span \in spans, a \in attendees, c \in DOMAIN Calendars,
         r \in {None, [frequency |-> "DAILY"]} }

\* the override of the first slot of an event, as the upsert stores it
MovedOverride(event, start_date, end_date) ==
    [NewOccurrence(event, event.start_date, event.end_date)
        EXCEPT !.id = 1, !.start_date = start_date, !.end_date = end_date]

InitUpcoming ==
    /\ \E first \in StoredEventData(FirstSpans, {{2}, Users}),
          second \in StoredEventData(SecondSpans, {{2}}), user \in Users :
          events = EventSerializer_create(EventSerializer_create(<<>>, first, 1),
                                          second, user)
    /\ occurrences \in {<<>>, <<MovedOverride(events[1], 11, 12)>>}
    /\ response = Response(0, "", NoId)
    /\ dates = None
    /\ calendars = StoredCalendars

\* the parameters of the listings: the custom ranges, one of them invalid,
\* and the current day, each with a calendar or without
UpcomingParams ==
    { params \in [period : {"CUSTOM"}, from_date : Days, to_date : Days,
                  calendar : {NoCalendar, "Home"}] :
         params.from_date <= params.to_date
            \/ (params.from_date = 1 /\ params.to_date = 0
                   /\ params.calendar = NoCalendar) }
    \cup { [period |-> "DAY", from_date |-> -1, to_date |-> -1, calendar |-> c] :
              c \in {NoCalendar, "Work"} }

\* UpcomingViewSet.list: GET /upcoming/, with the call of
\* upcoming_occurrences recorded: its user, parameters, clock, window and
\* what it returns
ListUpcoming(user, params, clock) ==
    /\ response' = UpcomingResponse(events, occurrences, user, params, clock)
    /\ IF ParamSerializer_validate(params)
       THEN LET body == upcoming_occurrences(params, get_queryset(events, user),
                                             occurrences, clock)
            IN  /\ dates' = [user |-> user, params |-> params, clock |-> clock,
                             range |-> period_days(params, clock), body |-> body]
                /\ occurrences' = TableAfterQuery(occurrences, body)
       ELSE UNCHANGED <<dates, occurrences>>
    /\ UNCHANGED <<events, calendars>>

NextUpcoming ==
    \E user \in Users, params \in UpcomingParams, clock \in Clocks :
       ListUpcoming(user, params, clock)

SpecUpcoming == InitUpcoming /\ [][NextUpcoming]_vars

(***************************************************************************)
(* The upserts over two stored events: PUT /events/pk/occurrence/ where    *)
(* event 1 is of user 1 and event 2 of either user, each with a recurrence *)
(* or none, and the first slot of event 1 has an override or none.         *)
(***************************************************************************)
InitUpsert ==
    /\ \E first \in StoredEventData({<<9, 10>>}, {{2}}),
          second \in StoredEventData(SecondSpans, {{2}}), user \in Users :
          /\ first.calendar_id = 1 /\ second.calendar_id = 1
          /\ events = EventSerializer_create(EventSerializer_create(<<>>, first, 1),
                                             second, user)
    /\ occurrences \in {<<>>, <<MovedOverride(events[1], 11, 12)>>}
    /\ response = Response(0, "", NoId)
    /\ dates = None
    /\ calendars = StoredCalendars

NextUpsert ==
    \E user \in Users, pk \in {1, 2}, data \in OccurrenceData :
       EventViewSet_occurrence(user, pk, data)

SpecUpsert == InitUpsert /\ [][NextUpsert]_vars

(***************************************************************************)
(* The calendars: POST /calendars/ and PUT /calendars/pk/ of two users,    *)
(* from an empty table up to MaxCalendars calendars.                       *)
(***************************************************************************)
MaxCalendars == 3

InitCalendar ==
    /\ events = <<>>
    /\ occurrences = <<>>
    /\ response = Response(0, "", NoId)
    /\ dates = None
    /\ calendars = <<>>

\* CalendarViewSet.create: POST /calendars/
CalendarViewSet_create(user, data) ==
    /\ Len(calendars) < MaxCalendars
    /\ LET done == CalendarCreateRequest(calendars, user, data)
       IN  calendars' = done.calendars /\ response' = done.response
    /\ UNCHANGED <<events, occurrences, dates>>

\* CalendarViewSet.update: PUT /calendars/pk/
CalendarViewSet_update(user, pk, data) ==
    /\ LET done == CalendarUpdateRequest(calendars, user, pk, data)
       IN  calendars' = done.calendars /\ response' = done.response
    /\ UNCHANGED <<events, occurrences, dates>>

NextCalendar ==
    \/ \E user \in Users, data \in CalendarData :
          CalendarViewSet_create(user, data)
    \/ \E user \in Users, pk \in 1..MaxCalendars, data \in CalendarData :
          CalendarViewSet_update(user, pk, data)

SpecCalendar == InitCalendar /\ [][NextCalendar]_vars
(***************************************************************************)
(* Vocabulary of the properties.                                           *)
(***************************************************************************)
\* the windows of a query: whole days from..to
Windows ==
    { [from_date |-> StartOfDay(p[1]), to_date |-> EndOfDay(p[2])] :
         p \in {q \in Days \X Days : q[1] <= q[2]} }

Horizon == EndOfDay(MaxDay)
EventSet == Range(events)
Saved(e) == OccurrencesOf(occurrences, e.id)
Between(e, w) == occurrence_between(e, Saved(e), w.from_date, w.to_date)
Duration(e) == e.end_date - e.start_date
Times(list, x) == Cardinality({i \in 1..Len(list) : list[i] = x})
InWindow(o, w) == o.start_date >= w.from_date /\ o.end_date <= w.to_date
OriginalStartIn(o, w) ==
    w.from_date <= o.original_start_date /\ o.original_start_date <= w.to_date
HasSlot(o, e, s) ==
    /\ o.event = e.id
    /\ o.original_start_date = s
    /\ o.original_end_date = s + Duration(e)

\* the starts of the slots the current rule of an event generates, ascending:
\* the one slot of an event without recurrence, else the instants of the
\* rule up to its until (an inclusive date)
RuleStarts(e) ==
    IF e.recurrence = None THEN <<e.start_date>>
    ELSE SelectSeq(rrule(e.start_date, Horizon, get_rule(e.recurrence)),
                   LAMBDA s : Has(e.recurrence, "until")
                                 => DateOf(s) <= e.recurrence.until.day)

\* the starts of the slots the generator yields inside a window
GeneratedStarts(e, w) ==
    IF e.recurrence = None
    THEN IF e.start_date < w.to_date /\ e.end_date > w.from_date
         THEN <<e.start_date>> ELSE <<>>
    ELSE SelectSeq(RuleStarts(e), LAMBDA s : w.from_date <= s /\ s <= w.to_date)

(***************************************************************************)
(* C1.  Override precedence: whenever the generator yields a slot inside   *)
(* the window and a persisted occurrence of the event has that slot as its *)
(* original slot, occurrence_between emits that persisted occurrence and   *)
(* emits no transient occurrence of the slot.                              *)
(***************************************************************************)
C1_OverridePrecedence ==
    \A e \in EventSet, w \in Windows :
       \A s \in Range(GeneratedStarts(e, w)), o \in Range(occurrences) :
          HasSlot(o, e, s)
             => LET result == Between(e, w)
                IN  /\ ~result.raised
                    /\ Times(result.list, o) >= 1
                    /\ \A x \in Range(result.list) :
                          ~(/\ x.id = NoId
                            /\ x.start_date = s
                            /\ x.end_date = s + Duration(e))

(***************************************************************************)
(* C2.  Orphan retention: for every event and window, a persisted override *)
(* whose original slot is not among the slots the current rule generates,  *)
(* but whose current start and end lie in the window, appears in the       *)
(* result of occurrence_between exactly once.                              *)
(***************************************************************************)
C2_OrphanRetention ==
    \A e \in EventSet, w \in Windows, o \in Range(occurrences) :
       (/\ o.event = e.id
        /\ \A s \in Range(RuleStarts(e)) : ~HasSlot(o, e, s)
        /\ InWindow(o, w))
          => LET result == Between(e, w)
             IN  ~result.raised /\ Times(result.list, o) = 1

(***************************************************************************)
(* C3.  Edit-then-query: for any transient occurrence an upcoming query    *)
(* returns, an upsert to its event with the unique key of that occurrence  *)
(* and no occurrence id, followed by the same query, gives a list of the   *)
(* same length whose entry at the position of that occurrence is the newly *)
(* persisted occurrence (the submitted fields, the same slot) and whose    *)
(* other entries are unchanged.                                            *)
(***************************************************************************)
ValidParams == {params \in Params : ParamSerializer_validate(params)}
Listing(evs, occs, user, params) ==
    upcoming_occurrences(params, get_queryset(evs, user), occs,
                         CHOOSE clock \in Clocks : TRUE)
\* the unique keys of the slots of the model, by event and start
SlotKey ==
    [id \in 1..MaxEvents, s \in SlotStarts |-> get_unique_key(id, s, s + 1)]
IsSlotKeyOf(key, o) ==
    /\ o.event \in 1..MaxEvents
    /\ o.original_start_date \in SlotStarts
    /\ o.original_end_date = o.original_start_date + 1
    /\ key = SlotKey[o.event, o.original_start_date]

EditThenQuery(reader, params, writer, data) ==
    LET before == Listing(events, occurrences, reader, params)
        after == Listing(events', occurrences', reader, params)
        persisted == occurrences'[Len(occurrences')]
    IN  \A p \in DOMAIN before.list :
           (/\ ~before.raised
            /\ before.list[p].id = NoId
            /\ data.occurrence_id = NoId
            /\ IsSlotKeyOf(data.occurrence_key, before.list[p])
            /\ EventViewSet_occurrence(writer, before.list[p].event, data))
              => /\ ~after.raised
                 /\ Len(after.list) = Len(before.list)
                 /\ after.list[p] = persisted
                 /\ persisted.id # NoId
                 /\ persisted = WithSubmitted(
                                   [before.list[p] EXCEPT !.id = persisted.id], data)
                 /\ \A q \in DOMAIN before.list :
                       q # p => after.list[q] = before.list[q]

C3_EditThenQuery ==
    [][Len(occurrences') = Len(occurrences) + 1
          => \A reader \in Users, params \in ValidParams,
                writer \in Users, data \in OccurrenceData :
                EditThenQuery(reader, params, writer, data)]_vars

(***************************************************************************)
(* C4.  Upsert is keyed by slot identity: after any sequence of upserts    *)
(* there is at most one persisted occurrence for each (event,              *)
(* original start, original end).                                          *)
(***************************************************************************)
SlotIdentity(o) == <<o.event, o.original_start_date, o.original_end_date>>

C4_UpsertKeyedBySlot ==
    \A i \in DOMAIN occurrences, j \in DOMAIN occurrences :
       i # j => SlotIdentity(occurrences[i]) # SlotIdentity(occurrences[j])

(***************************************************************************)
(* C5.  Update in place keeps the slot identity: an upsert whose           *)
(* occurrence id matches a persisted occurrence of the addressed event     *)
(* changes only title, description, start, end and cancelled of that       *)
(* record, to the submitted values, and creates or deletes no record; an   *)
(* event, original start and original end once persisted never change in   *)
(* any step.                                                               *)
(***************************************************************************)
UpdatesInPlace(user, pk, data) ==
    /\ GetObject(events, user, pk) # NoId
    /\ OccurrenceSerializer_validate(data)
    /\ FindInstance(occurrences, data.occurrence_id, pk) # NoId

UpdatedInPlace(before, after, data) ==
    /\ after.id = before.id
    /\ SlotIdentity(after) = SlotIdentity(before)
    /\ after.title = data.title
    /\ after.description = data.description
    /\ after.start_date = data.start_date
    /\ after.end_date = data.end_date
    /\ after.cancelled = data.cancelled

OnlySubmittedFieldsChange ==
    \A user \in Users, pk \in DOMAIN events, data \in OccurrenceData :
       UpdatesInPlace(user, pk, data)
          => LET done == OccurrenceRequest(events, occurrences, user, pk, data)
             IN  /\ done.response.status = 201
                 /\ DOMAIN done.occurrences = DOMAIN occurrences
                 /\ \A i \in DOMAIN occurrences :
                       IF i = data.occurrence_id
                       THEN UpdatedInPlace(occurrences[i], done.occurrences[i], data)
                       ELSE done.occurrences[i] = occurrences[i]

SlotIdentityKept ==
    \A i \in DOMAIN occurrences :
       /\ i \in DOMAIN occurrences'
       /\ occurrences'[i].id = occurrences[i].id
       /\ SlotIdentity(occurrences'[i]) = SlotIdentity(occurrences[i])

C5_UpdateInPlace == []OnlySubmittedFieldsChange /\ [][SlotIdentityKept]_vars

\* an upsert has just updated, in place, an occurrence that is not the last
\* one created, and left on it a start other than that of its slot
C5_Witness ==
    /\ response.status = 201
    /\ response.id # NoId
    /\ response.id < Len(occurrences)
    /\ occurrences[response.id].start_date
          # occurrences[response.id].original_start_date

(***************************************************************************)
(* C6.  A create by key carries the decoded identity.  As claimed: the     *)
(* occurrence an upsert creates from a well-formed key has the event id,   *)
(* the original start and the original end that the key decodes to.        *)
(***************************************************************************)
\* the upsert takes the key path and its key is the unique key of a slot, of
\* the addressed event or of another
CreatesByKey(user, pk, data) ==
    /\ GetObject(events, user, pk) # NoId
    /\ OccurrenceSerializer_validate(data)
    /\ FindInstance(occurrences, data.occurrence_id, pk) = NoId
    /\ data.occurrence_key \in SlotKeys

KeyFields(key) == Split(urlsafe_b64decode(key), <<>>)
\* the fields of the keys of the slots
SlotKeyFields == [key \in SlotKeys |-> KeyFields(key)]
\* the record a request leaves last in the table
Created(done) == done.occurrences[Len(done.occurrences)]

C6_DecodedIdentityWithEvent ==
    \A user \in Users, pk \in DOMAIN events, data \in OccurrenceData :
       CreatesByKey(user, pk, data)
          => LET done == OccurrenceRequest(events, occurrences, user, pk, data)
                 fields == SlotKeyFields[data.occurrence_key]
             IN  /\ done.response.status = 201
                 /\ Len(done.occurrences) = Len(occurrences) + 1
                 /\ StrInt(Created(done).event) = fields[1]
                 /\ StrDatetime(Created(done).original_start_date) = fields[2]
                 /\ StrDatetime(Created(done).original_end_date) = fields[3]

(***************************************************************************)
(* C6, amended.  The occurrence an upsert creates from a well-formed key   *)
(* belongs to the event the request addresses, whatever event id the key   *)
(* holds, and has the original start and the original end that the key     *)
(* decodes to; the records already persisted stay as they are.             *)
(***************************************************************************)
C6_DecodedSlotOfAddressedEvent ==
    \A user \in Users, pk \in DOMAIN events, data \in OccurrenceData :
       CreatesByKey(user, pk, data)
          => LET done == OccurrenceRequest(events, occurrences, user, pk, data)
                 fields == SlotKeyFields[data.occurrence_key]
             IN  /\ done.response.status = 201
                 /\ Len(done.occurrences) = Len(occurrences) + 1
                 /\ SubSeq(done.occurrences, 1, Len(occurrences)) = occurrences
                 /\ Created(done).id = Len(occurrences) + 1
                 /\ Created(done).event = pk
                 /\ StrDatetime(Created(done).original_start_date) = fields[2]
                 /\ StrDatetime(Created(done).original_end_date) = fields[3]

\* an upsert has just created an occurrence: the last of the table, with the
\* submitted start
C6_Witness ==
    /\ response.status = 201
    /\ response.id # NoId
    /\ response.id = Len(occurrences)
    /\ occurrences[response.id].event \in DOMAIN events
    /\ occurrences[response.id].original_start_date \in SlotStarts

(***************************************************************************)
(* C7.  A malformed key is rejected without effect: an upsert that matches *)
(* no persisted occurrence and whose key is no valid base64, or does not   *)
(* decode to exactly three fields separated by underscores, is answered    *)
(* with the validation error of the key, and the events and occurrences    *)
(* persisted stay as they are.                                             *)
(***************************************************************************)
MalformedKeys ==
    {key \in Keys : B64Malformed(key) \/ Len(KeyFields(key)) # 3}

MalformedKeyRejected ==
    \A user \in Users, pk \in DOMAIN events, data \in OccurrenceData :
       (/\ GetObject(events, user, pk) # NoId
        /\ OccurrenceSerializer_validate(data)
        /\ FindInstance(occurrences, data.occurrence_id, pk) = NoId
        /\ data.occurrence_key \in MalformedKeys)
          => LET done == OccurrenceRequest(events, occurrences, user, pk, data)
             IN  /\ done.response = Response(400, "ValueError", NoId)
                 /\ done.occurrences = occurrences

\* the step of a request answered with the validation error of the key
RejectionLeavesState ==
    (response' # response /\ response'.error = "ValueError")
       => UNCHANGED <<events, occurrences, dates>>

C7_MalformedKeyUntouched == []MalformedKeyRejected /\ [][RejectionLeavesState]_vars

\* a malformed key has just been rejected while occurrences are persisted
C7_Witness ==
    /\ response = Response(400, "ValueError", NoId)
    /\ occurrences # <<>>

(***************************************************************************)
(* C8.  Identity round trip: decoding the unique key of an occurrence and  *)
(* splitting it at the underscores gives exactly three fields, the strings *)
(* of the event id, the original start and the original end of the         *)
(* occurrence.  Checked for every occurrence persisted and every           *)
(* occurrence a query returns.                                             *)
(***************************************************************************)
RoundTrips(identity) ==
    LET key == get_unique_key(identity[1], identity[2], identity[3])
    IN  /\ ~B64Malformed(key)
        /\ KeyFields(key) = <<StrInt(identity[1]), StrDatetime(identity[2]),
                              StrDatetime(identity[3])>>

Returned ==
    UNION {Range(Between(e, w).list) : e \in EventSet, w \in Windows}

C8_IdentityRoundTrip ==
    \A identity \in {SlotIdentity(o) : o \in Range(occurrences) \cup Returned} :
       RoundTrips(identity)

\* a query returns a transient occurrence next to a persisted one
C8_Witness ==
    /\ occurrences # <<>>
    /\ \E o \in Returned : o.id = NoId

(***************************************************************************)
(* C9.  No-recurrence containment.  As claimed: for an event without       *)
(* recurrence, occurrence_between returns no occurrence or one, and the    *)
(* start and end of that occurrence are those of the event.                *)
(***************************************************************************)
C9_OwnStartAndEnd ==
    \A e \in EventSet, w \in Windows :
       e.recurrence = None
          => LET result == Between(e, w)
             IN  /\ ~result.raised
                 /\ Len(result.list) <= 1
                 /\ \A o \in Range(result.list) :
                       o.start_date = e.start_date /\ o.end_date = e.end_date

(***************************************************************************)
(* C9, amended.  For an event without recurrence, occurrence_between       *)
(* returns no occurrence or one; the original slot of that occurrence is   *)
(* the start and end of the event; it is either transient, with the start  *)
(* and end of the event, or the persisted override of that slot, with its  *)
(* own current start and end.                                              *)
(***************************************************************************)
C9_OwnSlot ==
    \A e \in EventSet, w \in Windows :
       e.recurrence = None
          => LET result == Between(e, w)
             IN  /\ ~result.raised
                 /\ Len(result.list) <= 1
                 /\ \A o \in Range(result.list) :
                       /\ HasSlot(o, e, e.start_date)
                       /\ IF o.id = NoId
                          THEN o.start_date = e.start_date /\ o.end_date = e.end_date
                          ELSE o \in Range(occurrences)

\* the one occurrence of an event without recurrence is an override moved
\* off the start of the event, and another override lies in the window
C9_Witness ==
    \E e \in EventSet, w \in Windows :
       /\ e.recurrence = None
       /\ \E o \in Range(Between(e, w).list) :
             o.id # NoId /\ o.start_date # e.start_date
       /\ \E o \in Range(occurrences) :
             InWindow(o, w) /\ o \notin Range(Between(e, w).list)

(***************************************************************************)
(* C10.  Per-event result order: the list occurrence_between returns for a *)
(* recurring event is one entry per generated slot in the window, in       *)
(* ascending order of slot start, each the matching override or a          *)
(* transient, followed by all unconsumed overrides in the window in id     *)
(* order.                                                                  *)
(***************************************************************************)
\* the entry of a slot: its override of least id, or a transient
SlotEntry(e, s) ==
    LET matching == {i \in DOMAIN occurrences : HasSlot(occurrences[i], e, s)}
    IN  IF matching = {} THEN NewOccurrence(e, s, s + Duration(e))
        ELSE occurrences[CHOOSE i \in matching : \A j \in matching : i <= j]

GeneratedEntries(e, w) ==
    LET starts == GeneratedStarts(e, w)
    IN  [k \in DOMAIN starts |-> SlotEntry(e, starts[k])]

Leftovers(e, w) ==
    SelectSeq(Saved(e),
              LAMBDA o : InWindow(o, w) /\ o \notin Range(GeneratedEntries(e, w)))

Ascending(starts) ==
    \A k \in DOMAIN starts : k > 1 => starts[k - 1] < starts[k]

C10_ResultOrder ==
    \A e \in EventSet, w \in Windows :
       e.recurrence # None
          => LET result == Between(e, w)
             IN  ~result.raised
                    => /\ Ascending(GeneratedStarts(e, w))
                       /\ result.list = GeneratedEntries(e, w) \o Leftovers(e, w)

(***************************************************************************)
(* C11.  Cross-event order: the list upcoming_occurrences returns is the   *)
(* concatenation of the lists of occurrence_between over the rows of the   *)
(* filtered query, in the order of the query; all occurrences of an        *)
(* earlier event precede all occurrences of a later event, even when they  *)
(* start later.                                                            *)
(***************************************************************************)
\* the rows of the filtered query of the recorded call and the list of each
Candidates == FilterCalendar(get_queryset(events, dates.user), dates.params)
ListOf(e) == Between(e, dates.range).list

RECURSIVE Offset(_)
\* the number of occurrences of the rows before row i
Offset(i) == IF i = 1 THEN 0 ELSE Offset(i - 1) + Len(ListOf(Candidates[i - 1]))

\* the first row of an event in the filtered query
FirstRow(id) == CHOOSE i \in DOMAIN Candidates :
                   /\ Candidates[i].id = id
                   /\ \A j \in DOMAIN Candidates : Candidates[j].id = id => i <= j

C11_CrossEventOrder ==
    (dates # None /\ ~dates.body.raised)
       => LET list == dates.body.list
          IN  /\ Len(list) = Offset(Len(Candidates) + 1)
              /\ \A i \in DOMAIN Candidates :
                    \A k \in DOMAIN ListOf(Candidates[i]) :
                       list[Offset(i) + k] = ListOf(Candidates[i])[k]
              /\ \A a \in DOMAIN list, b \in DOMAIN list :
                    a < b => FirstRow(list[a].event) <= FirstRow(list[b].event)

\* an occurrence of the first event starts after an occurrence of the second
\* event that follows it in the list
C11_Witness ==
    /\ dates # None
    /\ ~dates.body.raised
    /\ \E a \in DOMAIN dates.body.list, b \in DOMAIN dates.body.list :
          /\ a < b
          /\ dates.body.list[a].event # dates.body.list[b].event
          /\ dates.body.list[a].start_date > dates.body.list[b].start_date

(***************************************************************************)
(* C12.  Idempotence of materialization: without an upsert or a change of  *)
(* the event between them, a second call of occurrence_between on the same *)
(* event object and window raises as the first did and returns the same    *)
(* list; the saved_occurrences the first call left on the object do not    *)
(* reach the second.                                                       *)
(***************************************************************************)
\* the event object after a call: it carries the saved_occurrences left
AfterCall(e, outcome) ==
    [saved_occurrences |-> outcome.saved_occurrences] @@ e

SecondBetween(e, w) ==
    occurrence_between(AfterCall(e, Between(e, w)), Saved(e),
                       w.from_date, w.to_date)

C12_Idempotent ==
    \A e \in EventSet, w \in Windows :
       /\ SecondBetween(e, w).raised = Between(e, w).raised
       /\ SecondBetween(e, w).list = Between(e, w).list

\* a first call has consumed an override: what it left on the event is not
\* all the occurrences of the event, and the second call returns the override
C12_Witness ==
    \E e \in EventSet, w \in Windows :
       /\ ~Between(e, w).raised
       /\ Between(e, w).saved_occurrences # Saved(e)
       /\ \E o \in Range(SecondBetween(e, w).list) : o.id # NoId

(***************************************************************************)
(* C13.  Custom window validation: a query with period CUSTOM is answered  *)
(* 400 with the validation error of the period when from_date or to_date   *)
(* is missing or from_date is after to_date, whatever the events are, so    *)
(* before any window is computed or any event is materialized; a CUSTOM    *)
(* query with from_date <= to_date is not answered 400.                    *)
(***************************************************************************)
CustomParams == {params \in Params : params.period = "CUSTOM"}

C13_CustomWindowValidation ==
    \A user \in Users, params \in CustomParams, clock \in Clocks :
       LET answer == UpcomingResponse(events, occurrences, user, params, clock)
       IN  IF params.from_date = -1 \/ params.to_date = -1
           THEN answer = Response(400, "period: dates required", NoId)
           ELSE IF params.from_date > params.to_date
           THEN answer = Response(400, "period: Invalid date range", NoId)
           ELSE answer.status # 400

\* a query was rejected for its range while an event is stored
\* whose materialization raises in every window
C13_Witness ==
    /\ response = Response(400, "period: Invalid date range", NoId)
    /\ \E e \in EventSet : \A w \in Windows : Between(e, w).raised

(***************************************************************************)
(* C14.  Recurrence validation rejects every recurrence that has both a    *)
(* count and an until, for every value of count, 0 included, and no stored *)
(* recurrence has both keys.                                               *)
(***************************************************************************)
HasCountAndUntil(recurrence) ==
    Has(recurrence, "count") /\ Has(recurrence, "until")

C14_CountAndUntilRejected ==
    /\ \A recurrence \in Recurrences, now \in Nows :
          HasCountAndUntil(recurrence)
             => ~RecurrenceSerializer_validate(recurrence, DateOf(now))
    /\ \A e \in EventSet :
          e.recurrence # None => ~HasCountAndUntil(e.recurrence)

(***************************************************************************)
(* C15.  Expansion succeeds: for every stored event whose recurrence       *)
(* passes validation, one that carries an until included, and every        *)
(* window, occurrence_between returns a list and does not raise.           *)
(***************************************************************************)
PassesValidation(e) ==
    e.recurrence # None
       => \E now \in Nows : RecurrenceSerializer_validate(e.recurrence, DateOf(now))

C15_ExpansionSucceeds ==
    \A e \in EventSet, w \in Windows :
       PassesValidation(e) => ~Between(e, w).raised

(***************************************************************************)
(* C16.  Short-circuit to empty: for an event with a recurrence,           *)
(* occurrence_between returns the empty list whenever the event starts     *)
(* after the end of the window, and whenever the until of the recurrence   *)
(* is a date before the date of the start of the window, whatever          *)
(* overrides are stored for the event.                                     *)
(***************************************************************************)
ReturnsEmpty(outcome) == ~outcome.raised /\ outcome.list = <<>>

C16_ShortCircuit ==
    \A e \in EventSet, w \in Windows :
       e.recurrence # None
          => /\ e.start_date > w.to_date => ReturnsEmpty(Between(e, w))
             /\ (/\ Has(e.recurrence, "until")
                 /\ e.recurrence.until.day < DateOf(w.from_date))
                   => ReturnsEmpty(Between(e, w))

(***************************************************************************)
(* C20.  After any sequence of creates and updates every stored event ends *)
(* strictly after it starts, validation having rejected every payload      *)
(* whose end_date is not later than its start_date.                        *)
(***************************************************************************)
C20_EndAfterStart ==
    \A e \in EventSet : e.end_date > e.start_date

(***************************************************************************)
(* C17.  Inclusion boundaries: for an event with a recurrence, a slot the  *)
(* rule generates is in the result iff window.from <= slot start <=        *)
(* window.to, whatever its end, so a slot that starts before the window    *)
(* and ends inside it is left out; for an event without recurrence, the    *)
(* one occurrence is in the result iff event.start < window.to and         *)
(* event.end > window.from.  The slots are those without a stored          *)
(* override, whose entry is a transient.                                   *)
(***************************************************************************)
Overridden(e, s) == \E o \in Range(Saved(e)) : HasSlot(o, e, s)

\* the transient of slot s of event e is in the list
TransientIn(list, e, s) ==
    \E o \in Range(list) : o.id = NoId /\ HasSlot(o, e, s)

C17_InclusionBoundaries ==
    \A e \in EventSet, w \in Windows :
       ~Between(e, w).raised
          => IF e.recurrence # None
             THEN \A k \in DOMAIN RuleStarts(e) :
                     LET s == RuleStarts(e)[k]
                     IN  ~Overridden(e, s)
                            => (TransientIn(Between(e, w).list, e, s)
                                   <=> (w.from_date <= s /\ s <= w.to_date))
             ELSE ~Overridden(e, e.start_date)
                     => (TransientIn(Between(e, w).list, e, e.start_date)
                            <=> (e.start_date < w.to_date /\ e.end_date > w.from_date))

\* a listing left out the first slot of a recurring event, which starts
\* before the window and ends inside it, and returned its next slot
C17_Witness ==
    /\ dates # None
    /\ ~dates.body.raised
    /\ \E e \in Range(Candidates) :
          /\ e.recurrence # None
          /\ ~Overridden(e, e.start_date)
          /\ e.start_date < dates.range.from_date
          /\ e.end_date > dates.range.from_date
          /\ ~TransientIn(dates.body.list, e, e.start_date)
          /\ TransientIn(dates.body.list, e, e.start_date + 24)

(***************************************************************************)
(* C18.  Calendar filter: when the parameters name a calendar, every       *)
(* occurrence upcoming_occurrences returns belongs to an event of a        *)
(* calendar of that name, and every event of the query of the user in a    *)
(* calendar of that name is materialized: the occurrences of its           *)
(* occurrence_between are in the list; without a calendar in the           *)
(* parameters every event of the query is materialized.                    *)
(***************************************************************************)
CalendarName(event_id) == Calendars[events[event_id].calendar]

Wanted(e) ==
    dates.params.calendar # NoCalendar
       => Calendars[e.calendar] = dates.params.calendar

C18_CalendarFilter ==
    (dates # None /\ ~dates.body.raised)
       => /\ dates.params.calendar # NoCalendar
                => \A o \in Range(dates.body.list) :
                      CalendarName(o.event) = dates.params.calendar
          /\ \A e \in Range(get_queryset(events, dates.user)) :
                Wanted(e)
                   => \A o \in Range(ListOf(e)) :
                         Times(dates.body.list, o) >= Times(ListOf(e), o)

\* a listing with a calendar returned occurrences while an event of the
\* user in another calendar has occurrences in the window
C18_Witness ==
    /\ dates # None
    /\ ~dates.body.raised
    /\ dates.params.calendar # NoCalendar
    /\ dates.body.list # <<>>
    /\ \E e \in Range(get_queryset(events, dates.user)) :
          ~Wanted(e) /\ ListOf(e) # <<>>

(***************************************************************************)
(* C19.  Window table: with today the current date its branch reads,       *)
(* period_days returns for DAY today from 00:00 to the end of the day; for *)
(* WEEK the day isoweekday(today) days before today at 00:00 to six days   *)
(* later at the end of the day, always a Sunday and the Saturday after it; *)
(* for MONTH the first day of the month of today to its last day at the    *)
(* end of the day; for YEAR January 1 of the year of today to January 1 of *)
(* the next year at the end of the day; for CUSTOM from_date at 00:00 to   *)
(* to_date at the end of the day; and from <= to in every case.            *)
(***************************************************************************)
IsWindow(range, first, last) ==
    range.from_date = StartOfDay(first) /\ range.to_date = EndOfDay(last)

DayWindow(range, today) == IsWindow(range, today, today)

\* Sunday is the day 7 of the ISO week and Saturday the day 6
WeekWindow(range, today) ==
    /\ IsWindow(range, today - isoweekday(today), today - isoweekday(today) + 6)
    /\ isoweekday(DateOf(range.from_date)) = 7
    /\ isoweekday(DateOf(range.to_date)) = 6

\* the days of a month are those from its day 1 up to the day before the
\* next day 1
MonthWindow(range, today) ==
    LET first == DateOf(range.from_date)
        last == DateOf(range.to_date)
    IN  /\ IsWindow(range, first, last)
        /\ first <= today /\ today <= last
        /\ DayOfMonth(first) = 1 /\ DayOfMonth(last + 1) = 1
        /\ \A d \in (first + 1)..last : DayOfMonth(d) # 1

YearWindow(range, today) ==
    LET first == DateOf(range.from_date)
        last == DateOf(range.to_date)
    IN  /\ IsWindow(range, first, last)
        /\ YearOf(first) = YearOf(today) /\ MonthOf(first) = 1 /\ DayOfMonth(first) = 1
        /\ YearOf(last) = YearOf(today) + 1 /\ MonthOf(last) = 1 /\ DayOfMonth(last) = 1

C19_WindowTable ==
    dates # None
       => LET period == dates.params.period
              range == dates.range
          IN  /\ period = "DAY" => DayWindow(range, dates.clock.now_date)
              /\ period = "WEEK" => WeekWindow(range, dates.clock.today)
              /\ period = "MONTH" => MonthWindow(range, dates.clock.now_date)
              /\ period = "YEAR" => YearWindow(range, dates.clock.now_date)
              /\ period = "CUSTOM"
                    => IsWindow(range, dates.params.from_date, dates.params.to_date)
              /\ range.from_date <= range.to_date

\* the week of a Sunday of a leap February: the window ends the day before
\* today
C19_Witness ==
    /\ dates # None
    /\ dates.params.period = "WEEK"
    /\ isoweekday(dates.clock.today) = 7
    /\ MonthOf(dates.clock.today) = 2
    /\ dates.range.to_date < StartOfDay(dates.clock.today)

(***************************************************************************)
(* C21.  Calendar names are unique per user: after any creates and updates *)
(* no two calendars of one user have the same name; a create with a name   *)
(* the user already uses is answered 400 with 'Calendar exists for user'   *)
(* and adds no calendar; an update of a calendar that keeps its own name   *)
(* succeeds.                                                               *)
(***************************************************************************)
UsesName(user, name) ==
    \E i \in DOMAIN calendars :
       calendars[i].created_by = user /\ calendars[i].name = name

C21_UniqueNames ==
    /\ \A i \in DOMAIN calendars, j \in DOMAIN calendars :
          (/\ calendars[i].created_by = calendars[j].created_by
           /\ calendars[i].name = calendars[j].name)
             => i = j
    /\ \A user \in Users, data \in CalendarData :
          UsesName(user, data.name)
             => CalendarCreateRequest(calendars, user, data)
                   = [response |-> Response(400, "Calendar exists for user", NoId),
                      calendars |-> calendars]
    /\ \A pk \in DOMAIN calendars, data \in CalendarData :
          data.name = calendars[pk].name
             => LET done == CalendarUpdateRequest(calendars, calendars[pk].created_by,
                                                  pk, data)
                IN  /\ done.response.status = 200
                    /\ done.calendars[pk].name = data.name
                    /\ done.calendars[pk].color = data.color

\* a create was rejected for its name, the user having a calendar of that
\* name whose color an update has changed while the other user has a
\* calendar of the same name
C21_Witness ==
    /\ response = Response(400, "Calendar exists for user", NoId)
    /\ \E i \in DOMAIN calendars, j \in DOMAIN calendars :
          /\ calendars[i].name = calendars[j].name
          /\ calendars[i].created_by # calendars[j].created_by
          /\ calendars[i].color = "red" /\ calendars[j].color = ""

(***************************************************************************)
(* C22.  Count is counted from the start of the event, not from the        *)
(* window: for a recurrence with count n, the slots generated for any      *)
(* window are among the first n instants of the rule from the start of the *)
(* event, so over all windows at most n slots are generated, and a window  *)
(* after the n-th instant has no generated slot.                           *)
(***************************************************************************)
\* the instants of the rule of an event without its count, up to the horizon
Uncounted(e) ==
    RuleInstants(DateOf(e.start_date), e.start_date, Horizon,
                 [k \in DOMAIN get_rule(e.recurrence) \ {"count"}
                     |-> get_rule(e.recurrence)[k]])

\* the first n of them
FirstInstants(e, n) ==
    {Uncounted(e)[k] : k \in {i \in DOMAIN Uncounted(e) : i <= n}}

\* the starts of the slots generated for a window, those with a stored
\* override apart: the starts of the transients of the result
GeneratedIn(e, w) ==
    {o.original_start_date : o \in {x \in Range(Between(e, w).list) :
                                       OriginalStartIn(x, w) /\ x.id = NoId}}

Counted(e) == e.recurrence # None /\ Has(e.recurrence, "count")

C22_CountFromEventStart ==
    \A e \in EventSet :
       (Counted(e) /\ \A w \in Windows : ~Between(e, w).raised)
          => /\ \A w \in Windows :
                   GeneratedIn(e, w) \subseteq FirstInstants(e, e.recurrence.count)
             /\ Cardinality(UNION {GeneratedIn(e, w) : w \in Windows})
                   <= e.recurrence.count
             /\ \A w \in Windows :
                   (\A s \in FirstInstants(e, e.recurrence.count) : s < w.from_date)
                      => GeneratedIn(e, w) = {}

\* a window after the last counted instant of an event, in which the rule
\* without the count has an instant, has no generated slot
C22_Witness ==
    \E e \in EventSet, w \in Windows :
       /\ Counted(e)
       /\ ~Between(e, w).raised
       /\ \A s \in FirstInstants(e, e.recurrence.count) : s < w.from_date
       /\ \E k \in DOMAIN Uncounted(e) :
             w.from_date <= Uncounted(e)[k] /\ Uncounted(e)[k] <= w.to_date
       /\ Between(e, w).list = <<>>

(***************************************************************************)
(* C23.  BY_WEEK_DAY filter: for an event with frequency DAILY or WEEKLY,  *)
(* interval 1 and the period rule BY_WEEK_DAY with sequence S (0 = Monday  *)
(* to 6 = Sunday), every generated slot starts on a weekday of S at the    *)
(* time of day of the event, and every date from the later of the date of  *)
(* the event start and the date of window.from to the date of window.to    *)
(* whose weekday is in S, within the count, has a slot in the result.      *)
(***************************************************************************)
ByWeekDay(e) ==
    /\ e.recurrence # None
    /\ e.recurrence.frequency \in {"DAILY", "WEEKLY"}
    /\ ~Has(e.recurrence, "interval")
    /\ Has(e.recurrence, "period")
    /\ e.recurrence.period.rule = "BY_WEEK_DAY"

WeekDays(e) == Range(e.recurrence.period.sequence)

\* the dates of the weekdays of S from the start of the event to date d are
\* no more than the count
WithinCount(e, d) ==
    Has(e.recurrence, "count")
       => Cardinality({x \in DateOf(e.start_date)..d : Weekday(x) \in WeekDays(e)})
             <= e.recurrence.count

\* the result has an entry of the slot of event e on date d
SlotOn(list, e, d) ==
    \E o \in Range(list) : HasSlot(o, e, StartOfDay(d) + HourOf(e.start_date))

C23_ByWeekDay ==
    \A e \in EventSet, w \in Windows :
       (ByWeekDay(e) /\ ~Between(e, w).raised)
          => /\ \A o \in Range(Between(e, w).list) :
                   o.id = NoId
                      => /\ Weekday(DateOf(o.start_date)) \in WeekDays(e)
                         /\ HourOf(o.start_date) = HourOf(e.start_date)
             /\ \A d \in DateOf(w.from_date)..DateOf(w.to_date) :
                   (/\ d >= DateOf(e.start_date)
                    /\ Weekday(d) \in WeekDays(e)
                    /\ WithinCount(e, d))
                      => SlotOn(Between(e, w).list, e, d)

\* a window holds, from the start of the event on, a date of a weekday of S,
\* with its slot in the result, and a date of another weekday, without
C23_Witness ==
    \E e \in EventSet, w \in Windows :
       /\ ByWeekDay(e)
       /\ ~Between(e, w).raised
       /\ \E d \in DateOf(w.from_date)..DateOf(w.to_date) :
             /\ d >= DateOf(e.start_date)
             /\ Weekday(d) \in WeekDays(e)
             /\ SlotOn(Between(e, w).list, e, d)
       /\ \E d \in DateOf(w.from_date)..DateOf(w.to_date) :
             /\ d >= DateOf(e.start_date)
             /\ Weekday(d) \notin WeekDays(e)
             /\ ~SlotOn(Between(e, w).list, e, d)

(***************************************************************************)
(* C24.  Shape of a transient occurrence: every occurrence that            *)
(* occurrence_between makes for a slot without matching override has no    *)
(* id, is not cancelled, has the title and the description of the event,   *)
(* starts at the start of a generated slot of the window, which is its     *)
(* original start, and ends the duration of the event later, which is its  *)
(* original end.                                                           *)
(***************************************************************************)
TransientShape(o, e, w) ==
    /\ o.event = e.id
    /\ o.cancelled = FALSE
    /\ o.title = e.title /\ o.description = e.description
    /\ o.start_date \in Range(GeneratedStarts(e, w))
    /\ o.original_start_date = o.start_date
    /\ o.end_date = o.start_date + (e.end_date - e.start_date)
    /\ o.original_end_date = o.end_date

C24_TransientShape ==
    \A e \in EventSet, w \in Windows :
       ~Between(e, w).raised
          => /\ \A o \in Range(Between(e, w).list) :
                   o.id = NoId => TransientShape(o, e, w)
             /\ \A k \in DOMAIN GeneratedStarts(e, w) :
                   ~Overridden(e, GeneratedStarts(e, w)[k])
                      => TransientIn(Between(e, w).list, e, GeneratedStarts(e, w)[k])

\* a result holds the transient of a slot after the first slot of the
\* event, and an override as well
C24_Witness ==
    \E e \in EventSet, w \in Windows :
       /\ ~Between(e, w).raised
       /\ \E o \in Range(Between(e, w).list) :
             o.id = NoId /\ o.start_date > e.start_date
       /\ \E o \in Range(Between(e, w).list) : o.id # NoId

(***************************************************************************)
(* C25.  Override lookup by the original slot only: a persisted occurrence *)
(* of the event replaces a generated slot, being the entry of the result   *)
(* at the place of the slot, iff its original start is the start of the    *)
(* slot and its original end is that start plus the current duration of    *)
(* the event; its current start and end play no part, and where no         *)
(* persisted occurrence replaces the slot the entry is the transient of    *)
(* the slot.                                                               *)
(***************************************************************************)
\* the entry of the k-th generated slot of the window in the result
EntryOf(e, w, k) == Between(e, w).list[k]

C25_LookupByOriginalSlot ==
    \A e \in EventSet, w \in Windows :
       ~Between(e, w).raised
          => \A k \in DOMAIN GeneratedStarts(e, w) :
                LET slot == GeneratedStarts(e, w)[k]
                IN  /\ \A o \in Range(Saved(e)) :
                          (EntryOf(e, w, k) = o) <=> HasSlot(o, e, slot)
                    /\ (\A o \in Range(Saved(e)) : EntryOf(e, w, k) # o)
                          => EntryOf(e, w, k)
                                = NewOccurrence(e, slot, slot + Duration(e))

(***************************************************************************)
(* C26.  Queries are read-only: a listing, with the occurrence_between of  *)
(* every event under it, leaves the stored events and the stored           *)
(* occurrences as they were, also where it consumed an override in the     *)
(* merge.                                                                  *)
(***************************************************************************)
C26_QueriesReadOnly == [][UNCHANGED <<events, occurrences>>]_vars

\* a listing has returned an override, which is still stored
C26_Witness ==
    /\ dates # None
    /\ ~dates.body.raised
    /\ \E o \in Range(dates.body.list) : o.id # NoId /\ o \in Range(occurrences)

(***************************************************************************)
(* C27.  The WEEK window contains the current day: for every today, the    *)
(* range period_days returns for WEEK begins at or before the start of     *)
(* today and ends at or after the end of today.                            *)
(***************************************************************************)
C27_WeekContainsToday ==
    (dates # None /\ dates.params.period = "WEEK")
       => /\ dates.range.from_date <= StartOfDay(dates.clock.today)
          /\ EndOfDay(dates.clock.today) <= dates.range.to_date

(***************************************************************************)
(* C28.  No duplicated occurrences in the listing: every event of the user *)
(* is materialized once, so no two entries of the list have the same       *)
(* event, original start, original end and id, whatever the attendees of   *)
(* the event and whether the user is its creator, an attendee or both.     *)
(***************************************************************************)
SameEntry(o, p) ==
    /\ o.event = p.event
    /\ o.original_start_date = p.original_start_date
    /\ o.original_end_date = p.original_end_date
    /\ o.id = p.id

C28_NoDuplicates ==
    (dates # None /\ ~dates.body.raised)
       => \A a \in DOMAIN dates.body.list, b \in DOMAIN dates.body.list :
             SameEntry(dates.body.list[a], dates.body.list[b]) => a = b

(***************************************************************************)
(* C29.  An upsert addressed to an event never changes a persisted         *)
(* occurrence of another event: when the occurrence id of the payload is   *)
(* the id of an occurrence of another event, every stored occurrence is    *)
(* left as it was, the id is ignored and the upsert takes the key path: it *)
(* stores a new occurrence of the addressed event, or rejects the key.     *)
(***************************************************************************)
\* the payload names an occurrence of another event than the one addressed
NamesForeignOccurrence(occs, pk, data) ==
    /\ data.occurrence_id \in 1..Len(occs)
    /\ occs[data.occurrence_id].event # pk

\* the table after is the table before with one new occurrence of event pk
AddsOccurrenceOf(before, after, pk) ==
    /\ Len(after) = Len(before) + 1
    /\ SubSeq(after, 1, Len(before)) = before
    /\ after[Len(after)].event = pk
    /\ after[Len(after)].id = Len(after)

C29_ForeignOccurrenceUntouched ==
    \A user \in Users, pk \in DOMAIN events, data \in OccurrenceData :
       (/\ GetObject(events, user, pk) # NoId
        /\ OccurrenceSerializer_validate(data)
        /\ NamesForeignOccurrence(occurrences, pk, data))
          => LET done == OccurrenceRequest(events, occurrences, user, pk, data)
             IN  IF done.response.status = 201
                 THEN /\ AddsOccurrenceOf(occurrences, done.occurrences, pk)
                      /\ done.response.id = Len(done.occurrences)
                 ELSE /\ done.occurrences = occurrences
                      /\ ~DecodedKeys[data.occurrence_key].ok
                            \/ done.response.status = 500

\* the last occurrence stored is one of event 2, stored by an upsert whose
\* payload named an occurrence of event 1
C29_Witness ==
    /\ Len(occurrences) >= 2
    /\ response = Response(201, "", Len(occurrences))
    /\ LET before == SubSeq(occurrences, 1, Len(occurrences) - 1)
       IN  \E user \in Users, data \in OccurrenceData :
              /\ NamesForeignOccurrence(before, 2, data)
              /\ OccurrenceRequest(events, before, user, 2, data).occurrences
                    = occurrences

(***************************************************************************)
(* C30.  Window membership of results: every occurrence occurrence_between *)
(* returns for an event with a recurrence has its original start inside    *)
(* the window (a generated entry, also a consumed override whose current   *)
(* start and end were moved out of the window) or its current start and    *)
(* end inside the window (a leftover override); and no persisted           *)
(* occurrence is in one result more than once.                             *)
(***************************************************************************)
C30_WindowMembership ==
    \A e \in EventSet, w \in Windows :
       (e.recurrence # None /\ ~Between(e, w).raised)
          => \A o \in Range(Between(e, w).list) :
                /\ OriginalStartIn(o, w) \/ InWindow(o, w)
                /\ o.id # NoId => Times(Between(e, w).list, o) = 1

\* a result holds a consumed override moved out of the window and a
\* leftover override whose original slot is outside the window
C30_Witness ==
    \E e \in EventSet, w \in Windows :
       /\ e.recurrence # None
       /\ ~Between(e, w).raised
       /\ \E o \in Range(Between(e, w).list) :
             o.id # NoId /\ OriginalStartIn(o, w) /\ ~InWindow(o, w)
       /\ \E o \in Range(Between(e, w).list) :
             o.id # NoId /\ ~OriginalStartIn(o, w) /\ InWindow(o, w)

====
